---- MODULE Spec2Model ----
(***************************************************************************)
(* Model of main.py: the service-definition conversion pipeline.           *)
(*                                                                         *)
(* Python strings are modelled as sequences of one-character strings, so   *)
(* that str(), int(), re.match and ",".join are computed character by      *)
(* character.  A JSON value decoded by json.loads is a record              *)
(*   [t |-> tag, s |-> characters, n |-> number, l |-> elements]           *)
(* in which only the component selected by the tag is meaningful.          *)
(***************************************************************************)
EXTENDS Integers, Sequences, FiniteSets

VARIABLES
    \* process_excel
    df,             \* the input table: a sequence of rows
    index,          \* how many rows the loop has taken
    pc,             \* where process_excel stands
    llm_data,       \* what call_llm returned for the current row
    locals,         \* the nine fields read from llm_data
    output_rows,    \* the accumulator
    output_df,      \* the table Finalize writes
    events,         \* the service calls and the pauses, in the order they happened
    \* expand_service_ranges driven on its own
    service_codes,  \* the argument of expand_service_ranges
    expanded,       \* its result
    again,          \* the result of applying it to its own result
    epc             \* "idle" | "input" | "expanded" | "again"

pvars == <<df, index, pc, llm_data, locals, output_rows, output_df, events>>
evars == <<service_codes, expanded, again, epc>>
vars == <<df, index, pc, llm_data, locals, output_rows, output_df, events,
          service_codes, expanded, again, epc>>

-----------------------------------------------------------------------------
(* Bounds *)

\* the characters of one token sequence, each token counting one more
MaxBudget == 6
\* the largest JSON number used as a token
MaxNum == 1
\* the rows of the input table
MaxRows == 3

-----------------------------------------------------------------------------
(* Python values *)

Digits == <<"0", "1", "2", "3", "4", "5", "6", "7", "8", "9">>
DigitChars == {Digits[i] : i \in 1..10}
SpaceChars == {" "}
\* the characters tokens are drawn from
Chars == {"0", "1", "-", " ", "x"}

DigitVal(c) == CHOOSE d \in 0..9 : Digits[d + 1] = c

\* str(n) for a non-negative int
RECURSIVE IntToStr(_)
IntToStr(n) ==
    IF n < 10 THEN <<Digits[n + 1]>>
    ELSE IntToStr(n \div 10) \o <<Digits[(n % 10) + 1]>>

\* int(s) for a string of decimal digits
RECURSIVE StrToInt(_)
StrToInt(s) ==
    IF s = <<>> THEN 0
    ELSE StrToInt(SubSeq(s, 1, Len(s) - 1)) * 10 + DigitVal(s[Len(s)])

NoneStr == <<"N", "o", "n", "e">>

JStr(s) == [t |-> "str", s |-> s, n |-> 0, l |-> <<>>]
JNum(n) == [t |-> "num", s |-> <<>>, n |-> n, l |-> <<>>]
JNull == [t |-> "null", s |-> <<>>, n |-> 0, l |-> <<>>]
JList(l) == [t |-> "list", s |-> <<>>, n |-> 0, l |-> l]
\* a key the object does not have
JAbsent == [t |-> "absent", s |-> <<>>, n |-> 0, l |-> <<>>]

\* ", ".join(items) and ",".join(items), for a sequence of strings
RECURSIVE JoinWith(_, _)
JoinWith(sep, items) ==
    IF items = <<>> THEN <<>>
    ELSE IF Len(items) = 1 THEN items[1]
    ELSE items[1] \o sep \o JoinWith(sep, Tail(items))

\* repr(v) of a list element
PyRepr(v) ==
    CASE v.t = "str" -> <<"'">> \o v.s \o <<"'">>
      [] v.t = "num" -> IntToStr(v.n)
      [] OTHER -> NoneStr

\* str(v)
PyStr(v) ==
    CASE v.t = "str" -> v.s
      [] v.t = "num" -> IntToStr(v.n)
      [] v.t = "null" -> NoneStr
      [] OTHER -> <<"[">> \o JoinWith(<<",", " ">>, [i \in 1..Len(v.l) |-> PyRepr(v.l[i])])
                        \o <<"]">>

\* bool(v)
Truthy(v) ==
    CASE v.t = "str" -> v.s # <<>>
      [] v.t = "num" -> v.n # 0
      [] v.t = "null" -> FALSE
      [] OTHER -> v.l # <<>>

-----------------------------------------------------------------------------
(* re.match(r"(\d+)\s*-\s*(\d+)", code_str), line 29 *)

\* the first position at or after i of s whose character is not in class
RECURSIVE SkipClass(_, _, _)
SkipClass(s, i, class) ==
    IF i <= Len(s) /\ s[i] \in class THEN SkipClass(s, i + 1, class) ELSE i

NoMatch == [matched |-> FALSE, g1 |-> <<>>, g2 |-> <<>>]

\* The pattern is anchored at the start of the string and not at its end.
\* Every quantifier is greedy and no shorter choice can lead to a match, since
\* the character after a maximal run is never in the run's class.
re_match(s) ==
    LET d1 == SkipClass(s, 1, DigitChars)
        w1 == SkipClass(s, d1, SpaceChars)
        w2 == SkipClass(s, w1 + 1, SpaceChars)
        d2 == SkipClass(s, w2, DigitChars)
    IN  IF d1 = 1 THEN NoMatch
        ELSE IF w1 > Len(s) \/ s[w1] # "-" THEN NoMatch
        ELSE IF d2 = w2 THEN NoMatch
        ELSE [matched |-> TRUE, g1 |-> SubSeq(s, 1, d1 - 1), g2 |-> SubSeq(s, w2, d2 - 1)]

-----------------------------------------------------------------------------
(* expand_service_ranges, lines 19-38 *)

\* RangeStrs with range(start, end): the end code is left out
RangeStrsExclusive(start, end) ==
    [k \in 1..(IF end > start THEN end - start ELSE 0) |-> IntToStr(start + k - 1)]

\* [str(num) for num in range(start, end + 1)], lines 33-34
RangeStrs(start, end) ==
    [k \in 1..(IF end >= start THEN end - start + 1 ELSE 0) |-> IntToStr(start + k - 1)]

\* ExpandCode without the else: the token is appended after its own expansion
ExpandCodeKeepsToken(code) ==
    LET code_str == PyStr(code)
        match == re_match(code_str)
    IN  IF match.matched
        THEN RangeStrs(StrToInt(match.g1), StrToInt(match.g2)) \o <<code_str>>
        ELSE <<code_str>>

\* one iteration of the loop: what one code appends to expanded, lines 26-36
ExpandCode(code) ==
    LET code_str == PyStr(code)
        match == re_match(code_str)
    IN  IF match.matched
        THEN RangeStrs(StrToInt(match.g1), StrToInt(match.g2))
        ELSE <<code_str>>

\* The loop over service_codes, a sequence: expanded is the concatenation, in
\* order, of what each code appends.  The concatenation is computed by halves,
\* which keeps the evaluation shallow on a long sequence.
RECURSIVE ExpandLoop(_, _, _)
ExpandLoop(codes, lo, hi) ==
    IF lo > hi THEN <<>>
    ELSE IF lo = hi THEN ExpandCode(codes[lo])
    ELSE LET mid == (lo + hi) \div 2
         IN  ExpandLoop(codes, lo, mid) \o ExpandLoop(codes, mid + 1, hi)

expand_service_ranges(codes) == ExpandLoop(codes, 1, Len(codes))

\* a list of Python strings as JSON-like values, to pass a result back in
AsValues(strs) == [i \in 1..Len(strs) |-> JStr(strs[i])]

-----------------------------------------------------------------------------
(* safe_join, lines 12-16 *)

\* iter(v): the elements a for loop or map visits; a string yields its characters
IterItems(v) ==
    IF v.t = "str" THEN [i \in 1..Len(v.s) |-> JStr(<<v.s[i]>>)] ELSE v.l

\* iter(v) raises TypeError
NotIterable(v) == v.t \in {"null", "num"}

\* safe_join raises: values is truthy and cannot be iterated
SafeJoinRaises(values) == Truthy(values) /\ NotIterable(values)

safe_join(values) ==
    IF ~Truthy(values) THEN <<>>
    ELSE JoinWith(<<",">>, [i \in 1..Len(IterItems(values)) |-> PyStr(IterItems(values)[i])])

-----------------------------------------------------------------------------
(* call_llm, lines 45-92 *)

Keys ==
    {"serviceCodes", "diagnosisCodes", "revenueCodes", "modifier", "pos",
     "typeOfBill", "gender", "minAge", "maxAge"}

NoKeys == [k \in Keys |-> JAbsent]

\* What json.loads returns: a JSON object, as the value of each of the nine keys
\* with other telling whether it has further keys, or any other JSON value.
Object(d, other) == [t |-> "dict", d |-> d, other |-> other, v |-> JNull]
NonObject(v) == [t |-> "value", d |-> NoKeys, other |-> FALSE, v |-> v]
Unbound == [t |-> "unbound", d |-> NoKeys, other |-> FALSE, v |-> JNull]

\* {}, line 92
EmptyMapping == Object(NoKeys, FALSE)

\* the text of a response, in parts: fence markers (three backquotes, with or
\* without the json tag), whitespace, and a body that is the serialization of a
\* JSON value or is no JSON at all
Part(k, body) == [k |-> k, body |-> body]
FenceJson == Part("fence_json", Unbound)
Fence == Part("fence", Unbound)
Newline == Part("ws", Unbound)
Json(body) == Part("json", body)
Garbage == Part("garbage", Unbound)

\* content.replace(marker, ""), line 86
RECURSIVE Replace(_, _)
Replace(content, marker) ==
    IF content = <<>> THEN <<>>
    ELSE IF Head(content).k = marker THEN Replace(Tail(content), marker)
    ELSE <<Head(content)>> \o Replace(Tail(content), marker)

\* content.strip(), line 86
RECURSIVE Strip(_)
Strip(content) ==
    IF content = <<>> THEN <<>>
    ELSE IF Head(content).k = "ws" THEN Strip(Tail(content))
    ELSE IF content[Len(content)].k = "ws" THEN Strip(SubSeq(content, 1, Len(content) - 1))
    ELSE content

\* json.loads(content) raises, line 88
LoadsRaises(content) == ~(Len(content) = 1 /\ content[1].k = "json")

\* json.loads(content), line 88
Loads(content) == content[1].body

\* A response of ollama.chat: it raises, or it carries a content.
Raised == [raises |-> TRUE, content |-> <<>>]
Reply(content) == [raises |-> FALSE, content |-> content]

\* the try block and its handler, lines 76-92
call_llm(response) ==
    IF response.raises THEN EmptyMapping
    ELSE LET content == Strip(Replace(Replace(response.content, "fence_json"), "fence"))
         IN  IF LoadsRaises(content) THEN EmptyMapping ELSE Loads(content)

\* bool(llm_data), line 113
TruthyData(data) ==
    IF data.t = "dict" THEN data.other \/ \E k \in Keys : data.d[k] # JAbsent
    ELSE Truthy(data.v)

\* llm_data.get(key, default), lines 118-126
Get(data, key, default) == IF data.d[key] = JAbsent THEN default ELSE data.d[key]

-----------------------------------------------------------------------------
(* The responses the completion service is taken to give *)

FullRecord ==
    Object([NoKeys EXCEPT
        !["serviceCodes"] = JList(<<JStr(<<"1", "0", "-", "1", "2">>)>>),
        !["diagnosisCodes"] = JList(<<JStr(<<"X", "1">>), JStr(<<"X", "2">>)>>),
        !["revenueCodes"] = JList(<<>>),
        !["modifier"] = JStr(<<"M", "1">>),
        !["pos"] = JList(<<JNum(11)>>),
        !["typeOfBill"] = JStr(<<"1", "3", "1">>),
        !["gender"] = JStr(<<"F">>),
        !["minAge"] = JStr(<<"1", "8">>),
        !["maxAge"] = JStr(<<"6", "5">>)], FALSE)

TwoCodes ==
    Object([NoKeys EXCEPT
        !["serviceCodes"] = JList(<<JStr(<<"1", "0">>), JStr(<<"1", "1">>)>>),
        !["diagnosisCodes"] = JList(<<JStr(<<"D", "1">>)>>)], FALSE)

ReversedRange ==
    Object([NoKeys EXCEPT
        !["serviceCodes"] = JList(<<JStr(<<"2", "-", "1">>), JNum(5)>>),
        !["maxAge"] = JNum(9)], FALSE)

NoCodes ==
    Object([NoKeys EXCEPT
        !["serviceCodes"] = JList(<<>>),
        !["gender"] = JStr(<<"M">>)], FALSE)

OtherKeysOnly == Object(NoKeys, TRUE)

NullCodes ==
    Object([NoKeys EXCEPT
        !["serviceCodes"] = JNull,
        !["gender"] = JStr(<<"F">>)], FALSE)

NullFields ==
    Object([NoKeys EXCEPT
        !["serviceCodes"] = JList(<<JNum(7)>>),
        !["diagnosisCodes"] = JNull,
        !["gender"] = JNull,
        !["minAge"] = JNull,
        !["maxAge"] = JStr(<<"5">>)], FALSE)

StringCodes ==
    Object([NoKeys EXCEPT
        !["serviceCodes"] = JStr(<<"4", "2">>),
        !["pos"] = JStr(<<"2", "1">>)], FALSE)

Responses ==
    {Raised,
     Reply(<<Garbage>>),
     Reply(<<FenceJson, Newline, Garbage, Newline, Fence>>),
     Reply(<<Json(NonObject(JList(<<JNum(1)>>)))>>),
     Reply(<<Json(NonObject(JList(<<>>)))>>),
     Reply(<<Json(EmptyMapping)>>),
     Reply(<<Json(FullRecord)>>),
     Reply(<<FenceJson, Newline, Json(FullRecord), Newline, Fence>>),
     Reply(<<Fence, Newline, Json(TwoCodes), Newline, Fence, Newline>>),
     Reply(<<Json(TwoCodes)>>),
     Reply(<<Json(ReversedRange)>>),
     Reply(<<Json(NoCodes)>>),
     Reply(<<Json(OtherKeysOnly)>>),
     Reply(<<Json(NullCodes)>>),
     Reply(<<Json(NullFields)>>),
     Reply(<<Json(StringCodes)>>)}

-----------------------------------------------------------------------------
(* process_excel, lines 99-167 *)

Categories == {<<"A">>, <<"B">>}
Rows == [SERVICE_CATEGORY_NAME : Categories, DEFINITION : {<<"d">>}]

RECURSIVE Tables(_)
Tables(n) ==
    IF n = 0 THEN {<<>>}
    ELSE Tables(n - 1) \cup {Append(t, r) : t \in {t \in Tables(n - 1) : Len(t) = n - 1}, r \in Rows}

NoLocals ==
    [service_codes |-> JAbsent, diagnosis_codes |-> JAbsent, revenue_codes |-> JAbsent,
     modifier |-> JAbsent, pos_list |-> JAbsent, gender |-> JAbsent, min_age |-> JAbsent,
     max_age |-> JAbsent, type_of_bill |-> JAbsent]

\* lines 118-126
FieldsOf(data) ==
    [service_codes |-> Get(data, "serviceCodes", JList(<<>>)),
     diagnosis_codes |-> Get(data, "diagnosisCodes", JList(<<>>)),
     revenue_codes |-> Get(data, "revenueCodes", JList(<<>>)),
     modifier |-> Get(data, "modifier", JStr(<<>>)),
     pos_list |-> Get(data, "pos", JList(<<>>)),
     gender |-> Get(data, "gender", JStr(<<>>)),
     min_age |-> Get(data, "minAge", JStr(<<>>)),
     max_age |-> Get(data, "maxAge", JStr(<<>>)),
     type_of_bill |-> Get(data, "typeOfBill", JStr(<<>>))]

\* lines 132-134
AgeRange(min_age, max_age) ==
    IF Truthy(min_age) \/ Truthy(max_age)
    THEN PyStr(min_age) \o <<"-">> \o PyStr(max_age)
    ELSE <<>>

Minutes == 1
Billed_Amnt == 100

\* the keys of an output row, in the order of the dict display, lines 145-155
OutputColumns ==
    <<"ServiceCategory", "ServiceCode", "RevenueCode", "Gender", "Age", "DiagnosisCode",
      "POS", "TypeOfBill", "Modifier", "Minutes", "Billed_Amnt">>

\* OutputRow with the values of ServiceCode and RevenueCode exchanged
OutputRowSwapped(service_category, code, f) ==
    [ServiceCategory |-> service_category,
     ServiceCode |-> safe_join(f.revenue_codes),
     RevenueCode |-> code,
     Gender |-> PyStr(f.gender),
     Age |-> AgeRange(f.min_age, f.max_age),
     DiagnosisCode |-> safe_join(f.diagnosis_codes),
     POS |-> safe_join(f.pos_list),
     TypeOfBill |-> PyStr(f.type_of_bill),
     Modifier |-> PyStr(f.modifier),
     Minutes |-> Minutes,
     Billed_Amnt |-> Billed_Amnt]

\* the dict appended for one code, lines 144-156
OutputRow(service_category, code, f) ==
    [ServiceCategory |-> service_category,
     ServiceCode |-> code,
     RevenueCode |-> safe_join(f.revenue_codes),
     Gender |-> PyStr(f.gender),
     Age |-> AgeRange(f.min_age, f.max_age),
     DiagnosisCode |-> safe_join(f.diagnosis_codes),
     POS |-> safe_join(f.pos_list),
     TypeOfBill |-> PyStr(f.type_of_bill),
     Modifier |-> PyStr(f.modifier),
     Minutes |-> Minutes,
     Billed_Amnt |-> Billed_Amnt]

\* lines 129-156 raise: a field that must be iterated cannot be
RowRaises(f) ==
    \/ NotIterable(f.service_codes)
    \/ SafeJoinRaises(f.diagnosis_codes)
    \/ SafeJoinRaises(f.revenue_codes)
    \/ SafeJoinRaises(f.pos_list)

\* NewRows with the last code left out
NewRowsDropsLast(service_category, f) ==
    LET codes == expand_service_ranges(IterItems(f.service_codes))
    IN  [j \in 1..(Len(codes) - 1) |-> OutputRow(service_category, codes[j], f)]

\* the rows one input row appends, lines 129-156
NewRows(service_category, f) ==
    LET codes == expand_service_ranges(IterItems(f.service_codes))
    IN  [j \in 1..Len(codes) |-> OutputRow(service_category, codes[j], f)]

\* pd.DataFrame(output_rows), line 162: the columns are the keys of the rows, and a
\* table built from no rows has no columns
DataFrame(rows) ==
    [columns |-> IF rows = <<>> THEN <<>> ELSE OutputColumns, data |-> rows]

NoTable == [columns |-> <<>>, data |-> <<>>]

CallEvent(i, data) == [ev |-> "call", row |-> i, data |-> data]
SleepEvent(i) == [ev |-> "sleep", row |-> i, data |-> Unbound]

Init ==
    /\ df \in Tables(MaxRows)
    /\ index = 0
    /\ pc = "loop"
    /\ llm_data = Unbound
    /\ locals = NoLocals
    /\ output_rows = <<>>
    /\ output_df = NoTable
    /\ events = <<>>
    /\ service_codes = <<>>
    /\ expanded = <<>>
    /\ again = <<>>
    /\ epc = "idle"

\* lines 104-111: the loop takes the next row and calls call_llm
CallLlm ==
    /\ pc = "loop"
    /\ index < Len(df)
    /\ \E response \in Responses :
        /\ llm_data' = call_llm(response)
        /\ events' = Append(events, CallEvent(index + 1, call_llm(response)))
    /\ index' = index + 1
    /\ pc' = "called"
    /\ UNCHANGED <<df, locals, output_rows, output_df>>
    /\ UNCHANGED evars

\* Skip that takes the same row again
SkipRetries ==
    /\ pc = "called"
    /\ ~TruthyData(llm_data)
    /\ pc' = "loop"
    /\ index' = index - 1
    /\ UNCHANGED <<df, llm_data, locals, output_rows, output_df, events>>
    /\ UNCHANGED evars

\* lines 113-115: continue
Skip ==
    /\ pc = "called"
    /\ ~TruthyData(llm_data)
    /\ pc' = "loop"
    /\ UNCHANGED <<df, index, llm_data, locals, output_rows, output_df, events>>
    /\ UNCHANGED evars

\* lines 118-126
ReadFields ==
    /\ pc = "called"
    /\ TruthyData(llm_data)
    /\ llm_data.t = "dict"
    /\ locals' = FieldsOf(llm_data)
    /\ pc' = "fields"
    /\ UNCHANGED <<df, index, llm_data, output_rows, output_df, events>>
    /\ UNCHANGED evars

\* line 118 raises AttributeError: llm_data has no get
ReadFieldsRaises ==
    /\ pc = "called"
    /\ TruthyData(llm_data)
    /\ llm_data.t # "dict"
    /\ pc' = "raised"
    /\ UNCHANGED <<df, index, llm_data, locals, output_rows, output_df, events>>
    /\ UNCHANGED evars

\* lines 129-156
ExpandAndEmit ==
    /\ pc = "fields"
    /\ ~RowRaises(locals)
    /\ output_rows' = output_rows \o NewRows(df[index].SERVICE_CATEGORY_NAME, locals)
    /\ pc' = "sleep"
    /\ UNCHANGED <<df, index, llm_data, locals, output_df, events>>
    /\ UNCHANGED evars

\* lines 129-139 raise TypeError
ExpandRaises ==
    /\ pc = "fields"
    /\ RowRaises(locals)
    /\ pc' = "raised"
    /\ UNCHANGED <<df, index, llm_data, locals, output_rows, output_df, events>>
    /\ UNCHANGED evars

\* line 159
Sleep ==
    /\ pc = "sleep"
    /\ events' = Append(events, SleepEvent(index))
    /\ pc' = "loop"
    /\ UNCHANGED <<df, index, llm_data, locals, output_rows, output_df>>
    /\ UNCHANGED evars

\* lines 161-167
Finalize ==
    /\ pc = "loop"
    /\ index = Len(df)
    /\ output_df' = DataFrame(output_rows)
    /\ pc' = "done"
    /\ UNCHANGED <<df, index, llm_data, locals, output_rows, events>>
    /\ UNCHANGED evars

Next ==
    \/ CallLlm
    \/ Skip
    \/ ReadFields
    \/ ReadFieldsRaises
    \/ ExpandAndEmit
    \/ ExpandRaises
    \/ Sleep
    \/ Finalize

Spec == Init /\ [][Next]_vars

-----------------------------------------------------------------------------
(* The run of process_excel *)

IsCall(e) == e.ev = "call"
Calls == SelectSeq(events, IsCall)

\* the rows whose processing is over
RowsOver == IF pc \in {"called", "fields", "raised"} THEN index - 1 ELSE index

\* the record of a call is not empty
NonEmptyRecord(data) == data.t = "dict" /\ TruthyData(data)

\* the codes the first n calls resolve to, row after row
RECURSIVE ResolvedCodes(_, _)
ResolvedCodes(calls, n) ==
    IF n = 0 THEN <<>>
    ELSE ResolvedCodes(calls, n - 1) \o
         (IF NonEmptyRecord(calls[n].data)
          THEN expand_service_ranges(
                   IterItems(Get(calls[n].data, "serviceCodes", JList(<<>>))))
          ELSE <<>>)

ServiceCodesOf(rows) == [j \in 1..Len(rows) |-> rows[j].ServiceCode]

IsPrefix(a, b) == Len(a) <= Len(b) /\ SubSeq(b, 1, Len(a)) = a

\* C1: no failure of one row aborts the run: whatever the completion service
\* answers for a row, the run goes on to the later rows and to Finalize.
NoRowAbortsTheRun == pc # "raised"

\* C2: every value call_llm returns is a mapping, the parsed object or the empty
\* one, also when the response is valid JSON that is not an object.
CallLlmReturnsMapping == pc = "called" => llm_data.t = "dict"

\* C3: the table Finalize writes has exactly the declared output columns, also when
\* no output row was accumulated.
FinalizeHasColumns == pc = "done" => output_df.columns = OutputColumns

\* C4: the ServiceCode values of the accumulator are, at every step, the
\* concatenation over the rows processed so far that yielded a non-empty record, in
\* input order, of expand_service_ranges of the row's serviceCodes; at Finalize that
\* is the whole input and the table written; and the accumulator only grows at
\* its end.
AccumulatorIsConcatenation ==
    /\ [](/\ ServiceCodesOf(output_rows) = ResolvedCodes(Calls, RowsOver)
          /\ pc = "done" => /\ RowsOver = Len(df)
                            /\ output_df.data = output_rows)
    /\ [][IsPrefix(output_rows, output_rows')]_vars

\* a finished run in which one row was skipped and another emitted several rows
AccumulatorWitness ==
    /\ pc = "done"
    /\ \E i \in 1..Len(Calls) : ~TruthyData(Calls[i].data)
    /\ \E i \in 1..Len(Calls) : NonEmptyRecord(Calls[i].data)
    /\ Len(output_df.data) >= 2

\* C6: the row expansion of a non-empty record appends exactly one row per
\* resolved service code, in resolved order, with that code as ServiceCode; the
\* rows of one input row agree in every other field; Minutes is 1 and Billed_Amnt
\* is 100 in each.
RowExpansion ==
    [][(pc = "fields" /\ pc' = "sleep") =>
        LET new == SubSeq(output_rows', Len(output_rows) + 1, Len(output_rows'))
            codes == expand_service_ranges(IterItems(locals.service_codes))
        IN  /\ Len(new) = Len(codes)
            /\ \A j \in 1..Len(new) :
                /\ new[j].ServiceCode = codes[j]
                /\ new[j].Minutes = 1
                /\ new[j].Billed_Amnt = 100
                /\ new[j].ServiceCategory = df[index].SERVICE_CATEGORY_NAME
                /\ \A k \in 1..Len(new) :
                    [new[j] EXCEPT !.ServiceCode = <<>>] = [new[k] EXCEPT !.ServiceCode = <<>>]
    ]_vars

\* a row expanded to several codes after rows of another input row
RowExpansionWitness ==
    /\ pc = "sleep"
    /\ index = 2
    /\ Len(expand_service_ranges(IterItems(locals.service_codes))) >= 2
    /\ Len(output_rows) > Len(expand_service_ranges(IterItems(locals.service_codes)))

OneCallPerRow ==
    /\ [](/\ Len(Calls) = index
          /\ \A i \in 1..Len(Calls) : Calls[i].row = i
          /\ pc = "done" => Len(Calls) = Len(df))
    /\ [][Len(events') > Len(events) /\ IsCall(events'[Len(events')]) =>
            /\ pc = "loop"
            /\ RowsOver = index
            /\ events'[Len(events')].row = index + 1]_vars

\* a finished run of two rows, the first of which failed
OneCallPerRowWitness ==
    /\ pc = "done"
    /\ Len(df) = 2
    /\ Len(Calls) = 2
    /\ Calls[1].data = EmptyMapping

\* C10: a pause follows each row: after the call for a row there is a pause before
\* the call for the next row, and before Finalize for the last row, whether the row
\* emitted rows, resolved to no code or was skipped.
PauseAfterEachRow ==
    \A i \in 1..Len(events) :
        IsCall(events[i]) =>
            /\ i < Len(events) => events[i + 1].ev = "sleep"
            /\ pc = "done" => i < Len(events)

-----------------------------------------------------------------------------
(* expand_service_ranges on every bounded token sequence *)

\* the strings of exactly n characters
RECURSIVE StringsOfLen(_)
StringsOfLen(n) ==
    IF n = 0 THEN {<<>>}
    ELSE {<<c>> \o r : c \in Chars, r \in StringsOfLen(n - 1)}

\* the tokens that cost n: strings of n - 1 characters, and at cost 2 also the
\* JSON numbers and null
TokensOfCost(n) ==
    {JStr(s) : s \in StringsOfLen(n - 1)}
        \cup (IF n = 2 THEN {JNum(k) : k \in 0..MaxNum} \cup {JNull} ELSE {})

\* the token sequences whose tokens cost at most budget in total
RECURSIVE TokenSeqs(_)
TokenSeqs(budget) ==
    {<<>>} \cup UNION {{<<t>> \o r : t \in TokensOfCost(c), r \in TokenSeqs(budget - c)}
                        : c \in 1..budget}

InitExpand ==
    /\ service_codes \in TokenSeqs(MaxBudget)
    /\ expanded = <<>>
    /\ again = <<>>
    /\ epc = "input"
    /\ df = <<>>
    /\ index = 0
    /\ pc = "idle"
    /\ llm_data = Unbound
    /\ locals = NoLocals
    /\ output_rows = <<>>
    /\ output_df = NoTable
    /\ events = <<>>

Expand ==
    /\ epc = "input"
    /\ expanded' = expand_service_ranges(service_codes)
    /\ epc' = "expanded"
    /\ UNCHANGED <<service_codes, again>>
    /\ UNCHANGED pvars

ExpandAgain ==
    /\ epc = "expanded"
    /\ again' = expand_service_ranges(AsValues(expanded))
    /\ epc' = "again"
    /\ UNCHANGED <<service_codes, expanded>>
    /\ UNCHANGED pvars

NextExpand == Expand \/ ExpandAgain

SpecExpand == InitExpand /\ [][NextExpand]_vars

-----------------------------------------------------------------------------
(* The reference expansion: what a token stands for, stated without scanning *)

AllIn(s, a, b, class) == \A p \in a..b : s[p] \in class

\* <<i, j, k, m>>: s is digits 1..i, spaces i+1..j, "-" at j+1, spaces j+2..k,
\* digits k+1..m, and the digits stop at m
RangeSplits(s) ==
    LET L == Len(s)
    IN  UNION {UNION {UNION {{<<i, j, k, m>> :
            m \in {m \in (k + 1)..L : AllIn(s, k + 1, m, DigitChars)
                                      /\ (m = L \/ s[m + 1] \notin DigitChars)}} :
            k \in {k \in (j + 1)..L : AllIn(s, j + 2, k, SpaceChars)}} :
            j \in {j \in i..(L - 1) : AllIn(s, i + 1, j, SpaceChars) /\ s[j + 1] = "-"}} :
            i \in {i \in 1..L : AllIn(s, 1, i, DigitChars)}}

\* the number a string of digits denotes
RECURSIVE Val(_, _)
Val(r, acc) ==
    IF r = <<>> THEN acc ELSE Val(Tail(r), acc * 10 + DigitVal(Head(r)))

\* r is the decimal numeral of n: digits, no leading zero
IsDecimalOf(r, n) ==
    /\ Len(r) >= 1
    /\ AllIn(r, 1, Len(r), DigitChars)
    /\ (Len(r) = 1 \/ r[1] # "0")
    /\ Val(r, 0) = n

\* the <<A, B>> of a range token "A-B"; empty for a non-range token
RangeBounds(tok) ==
    IF tok.t # "str" THEN {}
    ELSE {<<Val(SubSeq(tok.s, 1, q[1]), 0), Val(SubSeq(tok.s, q[3] + 1, q[4]), 0)>> :
            q \in RangeSplits(tok.s)}

\* how many codes a token stands for
RefCount(tok) ==
    IF RangeBounds(tok) = {} THEN 1
    ELSE LET ab == CHOOSE x \in RangeBounds(tok) : TRUE
         IN  IF ab[1] <= ab[2] THEN ab[2] - ab[1] + 1 ELSE 0

\* r is the q-th code a token stands for
RefElem(tok, q, r) ==
    IF RangeBounds(tok) # {}
    THEN \A ab \in RangeBounds(tok) : IsDecimalOf(r, ab[1] + q - 1)
    ELSE CASE tok.t = "str" -> r = tok.s
           [] tok.t = "num" -> IsDecimalOf(r, tok.n)
           [] OTHER -> r = NoneStr

\* C5: expand_service_ranges is the reference expansion: the result is the in-order
\* concatenation of the tokens' codes, a non-range token standing for itself as a
\* string, a range token "A-B" with A <= B for str(A), ..., str(B) ascending, and a
\* range token with B < A for nothing.
ExpandIsReference ==
    epc # "input" =>
        LET n == Len(service_codes)
            off[t \in 0..n] == IF t = 0 THEN 0 ELSE off[t - 1] + RefCount(service_codes[t])
        IN  /\ Len(expanded) = off[n]
            /\ \A t \in 1..n : \A q \in 1..RefCount(service_codes[t]) :
                    RefElem(service_codes[t], q, expanded[off[t - 1] + q])

\* a range token with A < B was expanded next to a token that is not a range
ExpandIsReferenceWitness ==
    /\ epc = "expanded"
    /\ \E t \in 1..Len(service_codes) :
            \E ab \in RangeBounds(service_codes[t]) : ab[1] < ab[2]
    /\ \E t \in 1..Len(service_codes) : RangeBounds(service_codes[t]) = {}
    /\ Len(expanded) >= 3

\* C7: expand_service_ranges is idempotent: applied to its own result it returns
\* that result, and no element of a result is matched as a range token.
ExpandIdempotent ==
    epc = "again" =>
        /\ again = expanded
        /\ \A i \in 1..Len(expanded) : ~re_match(expanded[i]).matched

\* a result that differs from its argument was expanded again
ExpandIdempotentWitness ==
    /\ epc = "again"
    /\ Len(expanded) > Len(service_codes)
    /\ \E i \in 1..Len(service_codes) : service_codes[i].t = "num"

====
